---- MODULE Spec2Model ----
(***************************************************************************)
(* Model of lib/enums.hpp: the ENUM / ENUMSTR / STRINGIFY / ENUMS macros   *)
(* and the stdException value type with its process-wide staging instance  *)
(* __Expeption__, written through operator() and the EXCEPTIONS / EXP      *)
(* raise path.                                                             *)
(*                                                                         *)
(* Conventions.  A C string is a TLA+ string.  A `const char *` is either  *)
(* nullptr (the empty tuple) or a one-element tuple holding the pointee.   *)
(* C arrays are 0-based, TLA+ sequences 1-based: index i of the code is    *)
(* position i + 1 of the model.  Preprocessor tokens are the strings of    *)
(* their spelling.                                                         *)
(***************************************************************************)
EXTENDS Integers, Sequences, FiniteSets, TLC

VARIABLES
  THROWREASON,      \* the enumerator list macro given to ENUM/ENUMSTR/STRINGIFY
  PlainReason,      \* enumeration declared by ENUM(PlainReason, THROWREASON)
  ThrowReason,      \* enumeration declared by ENUMSTR(ThrowReason, THROWREASON)
  ThrowReason_str,  \* the array defined by STRINGIFY(ThrowReason, THROWREASON)
  Threads,          \* the threads of the process
  runs,             \* the member functions each thread executes
  nesting,          \* how deep this program nests handlers that raise again
  obj,              \* the stdException objects: __Expeption__ and one local per thread
  pc,               \* each thread's position
  frame,            \* each thread's pending operator() call (this and arguments)
  ret,              \* the reference operator() returned to each thread
  exc,              \* each thread's exception object under copy construction
  thrown,           \* each thread's live thrown copies, innermost handler last
  last,             \* history: arguments of the latest operator() call per object
  direct,           \* history: __Expeption__ was written by a call other than __exp__
  overlapped        \* history: another thread wrote __Expeption__ during this raise

vars == <<THROWREASON, PlainReason, ThrowReason, ThrowReason_str, Threads, runs,
          nesting, obj, pc, frame, ret, exc, thrown, last, direct, overlapped>>

statics == <<THROWREASON, PlainReason, ThrowReason, Threads, runs, nesting>>

-----------------------------------------------------------------------------
(* Bounds and input sets *)

\* longest enumerator list tried
MaxEnums == 3

\* deepest nesting of catch handlers that raise again
MaxNest == 2

\* the identifiers enumerator lists are cut from: the reasons of the synopsis
\* and the colours of the usage example
IdentPool == <<"InvalidInput", "IncorrectUsage", "WrongType", "Red", "Amber", "Green">>

\* the names of the member functions that raise
Funcs == {"parse", "walk"}

\* the class of the synopsis, which holds ENUMSTR and EXCEPTIONS
ClassName == "myClass"

Range(s) == {s[i] : i \in 1..Len(s)}

Idents == Range(IdentPool)

\* the lists of 1..MaxEnums distinct identifiers that are runs of the pool: an
\* identifier stands at different positions in different lists
EnumLists ==
  {s \in {SubSeq(IdentPool, a, b) : a \in 1..Len(IdentPool),
                                     b \in 1..Len(IdentPool)} :
     Len(s) \in 1..MaxEnums}

\* the list of the header's synopsis
SynopsisList == <<"InvalidInput", "IncorrectUsage", "WrongType">>

-----------------------------------------------------------------------------
(* Pointers to static strings *)

nullptr == <<>>

Ptr(s) == <<s>>

-----------------------------------------------------------------------------
(* The enum / string pairing macros *)

\* #define __COMMA_SEPARATED__(x) x,
__COMMA_SEPARATED__(x) == <<x>>

\* variant: the literal "x" in place of the stringified argument
STR_COMMA_SEPARATED_literal(x) == <<Ptr("x")>>

\* #define __STR_COMMA_SEPARATED__(x) #x,   (# turns the token into a literal
\* of its spelling; the array element is a pointer to that literal)
__STR_COMMA_SEPARATED__(x) == <<Ptr(x)>>

\* MACRO_TO_ARGS(M, a1, ..., an) expands to M(a1) M(a2) ... M(an)
RECURSIVE MACRO_TO_ARGS(_, _)
MACRO_TO_ARGS(kind, enums) ==
  IF enums = <<>> THEN <<>>
  ELSE (IF kind = "__COMMA_SEPARATED__"
          THEN __COMMA_SEPARATED__(Head(enums))
          ELSE __STR_COMMA_SEPARATED__(Head(enums)))
       \o MACRO_TO_ARGS(kind, Tail(enums))

\* enum { e1, e2, ..., en, }: the first enumerator is 0 and each later one is
\* its predecessor plus one; the result maps each enumerator to its value
RECURSIVE EnumValueAt(_, _)
EnumValueAt(decl, i) == IF i = 1 THEN 0 ELSE EnumValueAt(decl, i - 1) + 1

EnumDecl(decl) ==
  [x \in Range(decl) |-> EnumValueAt(decl, CHOOSE i \in 1..Len(decl) : decl[i] = x)]

\* #define ENUM(enum_class, enums...)
ENUM(enums) == EnumDecl(MACRO_TO_ARGS("__COMMA_SEPARATED__", enums))

\* variant: the list is expanded last identifier first
ENUMSTR_reversed(enums) ==
  EnumDecl(MACRO_TO_ARGS("__COMMA_SEPARATED__",
                         [i \in 1..Len(enums) |-> enums[Len(enums) + 1 - i]]))

\* #define ENUMSTR(enum_class, enums...)  (the array is only declared here)
ENUMSTR(enums) == EnumDecl(MACRO_TO_ARGS("__COMMA_SEPARATED__", enums))

\* #define STRINGIFY(enum_class, enums...)
STRINGIFY(enums) == MACRO_TO_ARGS("__STR_COMMA_SEPARATED__", enums)

\* #define ENUMS(enum_class, enum_idx) enum_class ## _str[enum_idx]
ENUMS(enum_class_str, enum_idx) == enum_class_str[enum_idx + 1]

-----------------------------------------------------------------------------
(* stdException *)

\* the process-wide instance declared with the class
__Expeption__ == 0

\* int ec_{-1}
ec_init == -1

\* variant: ec_ value-initialised, ec_{}
stdException_zeroed == [msg_ |-> nullptr, func_ |-> nullptr, ec_ |-> 0]

\* the default member initialisers
stdException_new == [msg_ |-> nullptr, func_ |-> nullptr, ec_ |-> ec_init]

what(e) == e.msg_

where(e) == e.func_

code(e) == e.ec_

\* variant: ec_ is not assigned
operator_ec_skipped(e, r) == e

\* variant: a null fnc is not stored, if (fnc) func_ = fnc
operator_func_nullguard(e, fnc) == IF fnc = nullptr THEN e ELSE [e EXCEPT !.func_ = fnc]

\* variant: return __Expeption__ in place of *this
operator_return_global(this) == __Expeption__

\* the three assignments of operator()(r, msg, fnc), in order
operator_ec(e, r) == [e EXCEPT !.ec_ = r]

operator_msg(e, msg) == [e EXCEPT !.msg_ = msg]

operator_func(e, fnc) == [e EXCEPT !.func_ = fnc]

\* return *this
operator_return(this) == this

\* variant: a hand-written copy constructor that leaves func_ out
copy_func_skipped(to, from) == to

\* the member-wise copy made by throw: msg_, func_, ec_ in declaration order
copy_msg(to, from) == [to EXCEPT !.msg_ = from.msg_]

copy_func(to, from) == [to EXCEPT !.func_ = from.func_]

copy_ec(to, from) == [to EXCEPT !.ec_ = from.ec_]

\* variant: every live handler refers to one shared exception object
Throw_shared(live, e) == [i \in 1..(Len(live) + 1) |-> e]

\* throw by value: a new exception object joins the live ones as the innermost
Throw(live, e) == Append(live, e)

\* __PRETTY_FUNCTION__ inside member function f of the class: its signature
__PRETTY_FUNCTION__(f) == "void " \o ClassName \o "::" \o f \o "()"

\* variant: the message and the origin are passed in each other's place
exp_swapped(reason, wh) ==
  [this |-> __Expeption__, r |-> ThrowReason[reason],
   msg |-> wh, fnc |-> ENUMS(ThrowReason_str, ThrowReason[reason])]

\* stdException & __exp__(THROW_ENUM reason, const char *where) const:
\* the object and arguments of the operator() call it makes
__exp__(reason, wh) ==
  [this |-> __Expeption__, r |-> ThrowReason[reason],
   msg |-> ENUMS(ThrowReason_str, ThrowReason[reason]), fnc |-> wh]

\* #define EXP(TROW_REASON) __exp__(TROW_REASON, __PRETTY_FUNCTION__)
EXP(reason, f) == __exp__(reason, Ptr(__PRETTY_FUNCTION__(f)))

-----------------------------------------------------------------------------
(* State *)

\* arguments tried for direct calls of operator(): the unset values, and values
\* no raise produces
DirectArgs == {[r |-> ec_init, msg |-> nullptr, fnc |-> nullptr],
               [r |-> 7, msg |-> Ptr("oops"), fnc |-> Ptr("main")]}

NoFrame == [this |-> __Expeption__, r |-> ec_init, msg |-> nullptr, fnc |-> nullptr,
            exp |-> FALSE, reason |-> "", f |-> ""]

Objs == {__Expeption__} \cup Threads

InitWith(lists, threads, fns, depth) ==
  /\ THROWREASON \in lists
  /\ runs = fns
  /\ nesting = depth
  /\ PlainReason = ENUM(THROWREASON)
  /\ ThrowReason = ENUMSTR(THROWREASON)
  /\ ThrowReason_str = STRINGIFY(THROWREASON)
  /\ Threads = threads
  /\ obj = [o \in {__Expeption__} \cup threads |-> stdException_new]
  /\ pc = [t \in threads |-> "idle"]
  /\ frame = [t \in threads |-> NoFrame]
  /\ ret = [t \in threads |-> __Expeption__]
  /\ exc = [t \in threads |-> stdException_new]
  /\ thrown = [t \in threads |-> <<>>]
  /\ last = [o \in {__Expeption__} \cup threads |-> <<>>]
  /\ direct = FALSE
  /\ overlapped = [t \in threads |-> FALSE]

\* one thread that runs every function
Init == InitWith(EnumLists, {1}, [t \in {1} |-> Funcs], MaxNest)

\* two threads, one in parse and one in walk, whose handlers do not raise again
InitMT == InitWith({SynopsisList}, {1, 2}, <<{"parse"}, {"walk"}>>, 1)

-----------------------------------------------------------------------------
(* Operations *)

Raising(t) == frame[t].exp /\ pc[t] # "idle"

InSet(t) == pc[t] \in {"set_ec", "set_msg", "set_func"}

\* a write of thread t to object o lands inside every other thread's raise in progress
NoteWrite(t, o) ==
  overlapped' = [u \in Threads |->
                   overlapped[u] \/ (u # t /\ o = __Expeption__ /\ Raising(u))]

\* throw EXP(reason) in member function f: __exp__ evaluates its arguments and
\* calls operator() on __Expeption__
RaiseCall(t, reason, f) ==
  /\ pc[t] = "idle"
  /\ Len(thrown[t]) < nesting
  /\ reason \in DOMAIN ThrowReason
  /\ f \in runs[t]
  /\ LET call == EXP(reason, f)
     IN  /\ frame' = [frame EXCEPT ![t] = [this |-> call.this, r |-> call.r,
                                           msg |-> call.msg, fnc |-> call.fnc,
                                           exp |-> TRUE, reason |-> reason, f |-> f]]
         /\ last' = [last EXCEPT ![call.this] = <<[r |-> call.r, msg |-> call.msg,
                                                   fnc |-> call.fnc]>>]
  /\ pc' = [pc EXCEPT ![t] = "set_ec"]
  /\ overlapped' = [overlapped EXCEPT ![t] = FALSE]
  /\ UNCHANGED <<statics, obj, ret, exc, thrown, direct>>

\* variant: the table entry is assigned, _str[reason] = where, not only read
Raise_scribble(t, reason, f) ==
  /\ RaiseCall(t, reason, f)
  /\ ThrowReason_str' = [ThrowReason_str EXCEPT ![ThrowReason[reason] + 1] =
                            Ptr(__PRETTY_FUNCTION__(f))]

Raise(t, reason, f) ==
  /\ RaiseCall(t, reason, f)
  /\ UNCHANGED ThrowReason_str

\* o(r, msg, fnc) written by the caller itself, o being __Expeption__ or a local
CallSet(t, o, r, msg, fnc) ==
  /\ pc[t] = "idle"
  /\ o \in {__Expeption__, t}
  /\ frame' = [frame EXCEPT ![t] = [this |-> o, r |-> r, msg |-> msg, fnc |-> fnc,
                                    exp |-> FALSE, reason |-> "", f |-> ""]]
  /\ last' = [last EXCEPT ![o] = <<[r |-> r, msg |-> msg, fnc |-> fnc]>>]
  /\ pc' = [pc EXCEPT ![t] = "set_ec"]
  /\ direct' = (direct \/ o = __Expeption__)
  /\ UNCHANGED <<statics, ThrowReason_str, obj, ret, exc, thrown, overlapped>>

\* stdException e;  a local is constructed anew
Construct(t) ==
  /\ pc[t] = "idle"
  /\ obj' = [obj EXCEPT ![t] = stdException_new]
  /\ last' = [last EXCEPT ![t] = <<>>]
  /\ UNCHANGED <<statics, ThrowReason_str, pc, frame, ret, exc, thrown, direct,
                 overlapped>>

\* ec_ = r;
SetEc(t) ==
  /\ pc[t] = "set_ec"
  /\ obj' = [obj EXCEPT ![frame[t].this] = operator_ec(@, frame[t].r)]
  /\ pc' = [pc EXCEPT ![t] = "set_msg"]
  /\ NoteWrite(t, frame[t].this)
  /\ UNCHANGED <<statics, ThrowReason_str, frame, ret, exc, thrown, last, direct>>

\* msg_ = msg;
SetMsg(t) ==
  /\ pc[t] = "set_msg"
  /\ obj' = [obj EXCEPT ![frame[t].this] = operator_msg(@, frame[t].msg)]
  /\ pc' = [pc EXCEPT ![t] = "set_func"]
  /\ NoteWrite(t, frame[t].this)
  /\ UNCHANGED <<statics, ThrowReason_str, frame, ret, exc, thrown, last, direct>>

\* func_ = fnc; return *this;
SetFunc(t) ==
  /\ pc[t] = "set_func"
  /\ obj' = [obj EXCEPT ![frame[t].this] = operator_func(@, frame[t].fnc)]
  /\ ret' = [ret EXCEPT ![t] = operator_return(frame[t].this)]
  /\ pc' = [pc EXCEPT ![t] = "returned"]
  /\ NoteWrite(t, frame[t].this)
  /\ UNCHANGED <<statics, ThrowReason_str, frame, exc, thrown, last, direct>>

\* the statement of a direct call ends; the returned reference is dropped
Discard(t) ==
  /\ pc[t] = "returned"
  /\ ~frame[t].exp
  /\ pc' = [pc EXCEPT ![t] = "idle"]
  /\ frame' = [frame EXCEPT ![t] = NoFrame]
  /\ ret' = [ret EXCEPT ![t] = __Expeption__]
  /\ UNCHANGED <<statics, ThrowReason_str, obj, exc, thrown, last, direct, overlapped>>

\* throw copies the returned object into the exception object, member by member
CopyMsg(t) ==
  /\ pc[t] = "returned"
  /\ frame[t].exp
  /\ exc' = [exc EXCEPT ![t] = copy_msg(@, obj[ret[t]])]
  /\ pc' = [pc EXCEPT ![t] = "copy_func"]
  /\ UNCHANGED <<statics, ThrowReason_str, obj, frame, ret, thrown, last, direct,
                 overlapped>>

CopyFunc(t) ==
  /\ pc[t] = "copy_func"
  /\ exc' = [exc EXCEPT ![t] = copy_func(@, obj[ret[t]])]
  /\ pc' = [pc EXCEPT ![t] = "copy_ec"]
  /\ UNCHANGED <<statics, ThrowReason_str, obj, frame, ret, thrown, last, direct,
                 overlapped>>

\* the copy is complete: control reaches catch(stdException & e)
CopyEc(t) ==
  /\ pc[t] = "copy_ec"
  /\ thrown' = [thrown EXCEPT ![t] =
                  Throw(@, [e |-> copy_ec(exc[t], obj[ret[t]]),
                            reason |-> frame[t].reason, f |-> frame[t].f,
                            overlap |-> overlapped[t]])]
  /\ exc' = [exc EXCEPT ![t] = stdException_new]
  /\ pc' = [pc EXCEPT ![t] = "idle"]
  /\ frame' = [frame EXCEPT ![t] = NoFrame]
  /\ ret' = [ret EXCEPT ![t] = __Expeption__]
  /\ overlapped' = [overlapped EXCEPT ![t] = FALSE]
  /\ UNCHANGED <<statics, ThrowReason_str, obj, last, direct>>

\* the innermost catch handler finishes and its exception object is destroyed
HandlerExit(t) ==
  /\ pc[t] = "idle"
  /\ thrown[t] # <<>>
  /\ thrown' = [thrown EXCEPT ![t] = SubSeq(@, 1, Len(@) - 1)]
  /\ UNCHANGED <<statics, ThrowReason_str, obj, pc, frame, ret, exc, last, direct,
                 overlapped>>

\* a program that uses operator() directly as well as the raise path
Next ==
  \/ \E t \in Threads, reason \in Idents, f \in Funcs : Raise(t, reason, f)
  \/ \E t \in Threads, o \in Objs, a \in DirectArgs : CallSet(t, o, a.r, a.msg, a.fnc)
  \/ \E t \in Threads : Construct(t)
  \/ \E t \in Threads : SetEc(t)
  \/ \E t \in Threads : SetMsg(t)
  \/ \E t \in Threads : SetFunc(t)
  \/ \E t \in Threads : Discard(t)
  \/ \E t \in Threads : CopyMsg(t)
  \/ \E t \in Threads : CopyFunc(t)
  \/ \E t \in Threads : CopyEc(t)
  \/ \E t \in Threads : HandlerExit(t)

\* a program that writes __Expeption__ through throw EXP(...) only
NextRaise ==
  \/ \E t \in Threads, reason \in Idents, f \in Funcs : Raise(t, reason, f)
  \/ \E t \in Threads : SetEc(t)
  \/ \E t \in Threads : SetMsg(t)
  \/ \E t \in Threads : SetFunc(t)
  \/ \E t \in Threads : CopyMsg(t)
  \/ \E t \in Threads : CopyFunc(t)
  \/ \E t \in Threads : CopyEc(t)
  \/ \E t \in Threads : HandlerExit(t)

\* one thread, every enumerator list
Spec == Init /\ [][Next]_vars

\* two threads raising through the shared __Expeption__, the list of the synopsis
SpecMT == InitMT /\ [][NextRaise]_vars

-----------------------------------------------------------------------------
(* Properties *)

N == Len(THROWREASON)

\* no thread is inside operator()
Quiescent == \A t \in Threads : ~InSet(t)

Fields(e) == <<code(e), what(e), where(e)>>

\* the thrown copies whose construction is complete
Caught == {<<t, i>> \in Threads \X (1..nesting) : i <= Len(thrown[t])}

\* the position, from 0, of identifier x in the enumerator list
PositionOf(x) == (CHOOSE i \in 1..N : THROWREASON[i] = x) - 1

\* C1 as stated: raising reason r from function f through EXP yields an exception
\* value with code() the integer value of r, what() the spelling of r and where()
\* the name of f.
C1_RaiseYieldsFunctionName ==
  \A c \in Caught :
    LET x == thrown[c[1]][c[2]]
    IN  Fields(x.e) = <<PositionOf(x.reason), Ptr(x.reason), Ptr(x.f)>>

\* C1 amended: in a single thread, raising reason r from member function f through
\* EXP yields an exception value with code() the integer value of r, what() the
\* spelling of r and where() the __PRETTY_FUNCTION__ of f, its decorated
\* signature, which is never the bare name of f.
C1_RaiseYieldsPrettyFunction ==
  \A c \in Caught :
    LET x == thrown[c[1]][c[2]]
    IN  /\ Fields(x.e) = <<PositionOf(x.reason), Ptr(x.reason),
                           Ptr(__PRETTY_FUNCTION__(x.f))>>
        /\ where(x.e) # Ptr(x.f)

\* WrongType raised from parse under the list of the synopsis has been caught
C1_Witness ==
  /\ THROWREASON = SynopsisList
  /\ \E c \in Caught :
       LET x == thrown[c[1]][c[2]]
       IN  x.reason = "WrongType" /\ x.f = "parse" /\ code(x.e) = 2

\* C2: the string table has exactly N entries, the lookup ENUMS(type, i) returns
\* the spelling of the i-th identifier of the list for every i in 0..N-1, and the
\* table index of a name is the integer value the enumeration gives that name.
C2_TableMatchesList ==
  /\ Len(ThrowReason_str) = N
  /\ \A i \in 0..(N - 1) : ENUMS(ThrowReason_str, i) = Ptr(THROWREASON[i + 1])
  /\ \A x \in DOMAIN ThrowReason :
       /\ ThrowReason[x] \in 0..(N - 1)
       /\ ENUMS(ThrowReason_str, ThrowReason[x]) = Ptr(x)

\* a raise has looked up the third entry of a table of three or more
C2_Witness ==
  /\ N >= 3
  /\ \E t \in Threads :
       /\ frame[t].exp
       /\ frame[t].reason = THROWREASON[3]
       /\ frame[t].msg = Ptr(THROWREASON[3])

\* C3: the enumeration declared by ENUM or by ENUMSTR has exactly N enumerators and
\* the i-th identifier of the list, counting from 0, has the integer value i.
C3_EnumValuesSequential ==
  /\ Cardinality(DOMAIN PlainReason) = N
  /\ Cardinality(DOMAIN ThrowReason) = N
  /\ \A i \in 0..(N - 1) :
       /\ PlainReason[THROWREASON[i + 1]] = i
       /\ ThrowReason[THROWREASON[i + 1]] = i

\* the third enumerator of a list of three or more has been raised as code 2
C3_Witness ==
  /\ N >= 3
  /\ \E t \in Threads :
       frame[t].exp /\ frame[t].reason = THROWREASON[3] /\ frame[t].r = 2

\* C4: right after operator()(r, msg, origin) returns, with no other operation in
\* between, code(), what() and where() of the object are (r, msg, origin), and the
\* returned reference is that object, so the same values are read through it.
C4_SetThenRead ==
  \A t \in Threads :
    pc[t] = "returned" =>
      /\ Fields(obj[frame[t].this]) = <<frame[t].r, frame[t].msg, frame[t].fnc>>
      /\ ret[t] = frame[t].this
      /\ Fields(obj[ret[t]]) = <<frame[t].r, frame[t].msg, frame[t].fnc>>

\* a direct call on a local has just returned, __Expeption__ holding other values
C4_Witness ==
  \E t \in Threads :
    /\ pc[t] = "returned"
    /\ ~frame[t].exp
    /\ frame[t].this = t
    /\ frame[t].r = 7
    /\ obj[__Expeption__] # obj[t]

\* C5: an exception value on which operator() was never called, the process-wide
\* instance included, reports code() = -1, what() = nullptr and where() = nullptr.
C5_FreshIsUnset ==
  \A o \in Objs :
    last[o] = <<>> => /\ code(obj[o]) = -1
                      /\ what(obj[o]) = nullptr
                      /\ where(obj[o]) = nullptr

\* a local is fresh while __Expeption__ has been set
C5_Witness ==
  \E t \in Threads :
    /\ last[t] = <<>>
    /\ last[__Expeption__] # <<>>
    /\ code(obj[__Expeption__]) # -1
    /\ code(obj[t]) = -1

\* what a raise of reason x from f leaves in __Expeption__ when nothing interferes
RaisedFields(x, f) == <<PositionOf(x), Ptr(x), Ptr(__PRETTY_FUNCTION__(f))>>

\* C6: with two threads raising through the shared instance, a thread can throw a
\* value that is not what it raised; it does so only when the other thread wrote
\* the instance between the start of its raise and the end of its copy.
C6_CorruptOnlyByOverlap ==
  \A c \in Caught :
    LET x == thrown[c[1]][c[2]]
    IN  Fields(x.e) # RaisedFields(x.reason, x.f) => x.overlap

\* a thread has thrown a value none of whose fields is what it raised, and
\* __Expeption__ was written by raises only
C6_Witness ==
  /\ Cardinality(Threads) = 2
  /\ ~direct
  /\ \E c \in Caught :
       LET x == thrown[c[1]][c[2]]
       IN  /\ code(x.e) # PositionOf(x.reason)
           /\ what(x.e) # Ptr(x.reason)
           /\ where(x.e) # Ptr(__PRETTY_FUNCTION__(x.f))

\* C7: in a single thread, a thrown copy that is still alive after a step has the
\* code, message and origin it had before the step, whatever is raised or set later.
C7_ThrownCopyFrozen ==
  [][\A t \in Threads : \A i \in 1..Len(thrown[t]) :
        i <= Len(thrown'[t]) => thrown'[t][i] = thrown[t][i]]_vars

\* a second raise was caught while the first copy is alive, and the first copy
\* differs from the second and from __Expeption__
C7_Witness ==
  \E t \in Threads :
    /\ Len(thrown[t]) >= 2
    /\ thrown[t][1].e # thrown[t][2].e
    /\ thrown[t][1].e # obj[__Expeption__]

\* C8: no step of the facility changes the length or an entry of the string table.
C8_TableImmutable == [][ThrowReason_str' = ThrowReason_str]_vars

\* the table is as defined after a raise was caught and a direct call was made
C8_Witness ==
  /\ ThrowReason_str = STRINGIFY(THROWREASON)
  /\ direct
  /\ \E t \in Threads : thrown[t] # <<>> /\ last[t] # <<>>

\* C9: in a single thread, outside operator(), an object on which operator() was
\* called reports the three arguments of the most recent call and nothing else.
C9_LastSetWins ==
  Quiescent =>
    \A o \in Objs :
      last[o] # <<>> => Fields(obj[o]) = <<last[o][1].r, last[o][1].msg, last[o][1].fnc>>

\* after a caught raise, a later call passed the unset values and __Expeption__
\* reports them, the earlier copy keeping the raised ones
C9_Witness ==
  /\ Quiescent
  /\ last[__Expeption__] # <<>>
  /\ obj[__Expeption__] = stdException_new
  /\ \E t \in Threads : thrown[t] # <<>> /\ code(thrown[t][1].e) >= 0

Unset(e) == code(e) = -1 /\ what(e) = nullptr /\ where(e) = nullptr

Coherent(e) ==
  /\ code(e) \in 0..(N - 1)
  /\ what(e) = ENUMS(ThrowReason_str, code(e))
  /\ where(e) # nullptr

\* C10: in a single thread, while __Expeption__ is written through __exp__ only, it
\* is, outside operator(), unset before the first raise and coherent after it: code
\* in 0..N-1 and that of the last raise, message the table entry at index code,
\* origin not null.
C10_UnsetOrCoherent ==
  (~direct /\ Quiescent) =>
    /\ Unset(obj[__Expeption__]) \/ Coherent(obj[__Expeption__])
    /\ last[__Expeption__] = <<>> => Unset(obj[__Expeption__])
    /\ last[__Expeption__] # <<>> =>
         /\ Coherent(obj[__Expeption__])
         /\ code(obj[__Expeption__]) = last[__Expeption__][1].r

\* a second raise left a coherent __Expeption__ that differs from the first copy
C10_Witness ==
  /\ ~direct
  /\ Quiescent
  /\ Coherent(obj[__Expeption__])
  /\ \E t \in Threads : thrown[t] # <<>> /\ thrown[t][1].e # obj[__Expeption__]

====
